---- MODULE Spec2Model ----
(***************************************************************************)
(* Poltergeist MCP server (src/main.py): nine tool operations, each a      *)
(* linear pipeline of an environment check, one outbound request and the   *)
(* normalisation of the answer into a result dict.  The model keeps the    *)
(* process environment, the two datastore tables (orders, spending_limits) *)
(* and the record of the last invocation (its inputs, the answer of the    *)
(* provider, the result returned and the outbound calls it made).          *)
(***************************************************************************)
EXTENDS Integers, Sequences, FiniteSets, TLC

VARIABLES env, orders, limits, now, last, lastSet, pending

vars == <<env, orders, limits, now, last, lastSet, pending>>

-----------------------------------------------------------------------------
(* JSON values as Python sees them: None, str, number, list, dict.  A dict  *)
(* is a function from its keys to values; a key that is absent is not in    *)
(* the domain.                                                              *)

Null == [t |-> "null"]
Str(s) == [t |-> "str", v |-> s]
Num(n) == [t |-> "num", v |-> n]
List(q) == [t |-> "list", v |-> q]
Obj(f) == [t |-> "obj", v |-> f]
NoKeys == [k \in {} |-> Null]
EmptyObj == Obj(NoKeys)

\* An exception leaving a block of code: the marker the enclosing handler
\* (an except clause, or nothing) decides about.
Raise(e) == [t |-> "raise", v |-> e]

IsRaise(x) == x.t = "raise"
IsObj(x) == x.t = "obj"
IsList(x) == x.t = "list"

\* Python truthiness: None, "", 0, [] and {} are falsy.
Truthy(x) ==
    CASE x.t = "null" -> FALSE
      [] x.t = "str" -> x.v # ""
      [] x.t = "num" -> x.v # 0
      [] x.t = "list" -> Len(x.v) > 0
      [] x.t = "obj" -> DOMAIN x.v # {}
      [] OTHER -> TRUE

\* dict.get(k) and dict.get(k, d) on a dict d.
Has(d, k) == k \in DOMAIN d.v
Get(d, k) == IF k \in DOMAIN d.v THEN d.v[k] ELSE Null
GetD(d, k, dflt) == IF k \in DOMAIN d.v THEN d.v[k] ELSE dflt

\* "a or b"
Or(a, b) == IF Truthy(a) THEN a ELSE b

\* len(x) > 0 for a truthy x: a TypeError on a number.
-----------------------------------------------------------------------------
(* The process environment (os.environ after load_dotenv).                  *)

FirecrawlEnv == {"FIRECRAWL_API_KEY"}
RyeEnv == {"RYE_AUTH_HEADER", "RYE_SHOPPER_IP"}
SupabaseEnv == {"SUPABASE_URL", "SUPABASE_SERVICE_ROLE_KEY"}
EnvNames == FirecrawlEnv \cup RyeEnv \cup SupabaseEnv

\* "not all([...])" / "not a or not b": every named variable is set and non-empty.
EnvSet(e, names) == names \subseteq e

-----------------------------------------------------------------------------
(* What the transport hands back for one POST: the connection fails, the    *)
(* status is not 2xx, the body is not JSON, or a JSON body.                 *)

NetError == [net |-> "error"]
NetOk(body) == [net |-> "ok", body |-> body]

\* An f-string: its literal text and the value formatted into it.
FStr(s, arg) == [t |-> "str", v |-> s, arg |-> arg]

\* A Failure dict with and without details; msg is a Str or an FStr.
Fail(msg) == Obj([error |-> msg])
FailD(msg, details) == Obj([error |-> msg, details |-> details])

-----------------------------------------------------------------------------
(* create_amazon_cart                                                       *)

RyeConfigMissing == Fail(Str("RYE_AUTH_HEADER or RYE_SHOPPER_IP not set"))

\* The guard of lines 320-327, short-circuit "or" from left to right; a
\* stores[0] that is not a dict raises inside it.
CartLooksEmptyStoresOnly(cart) ==
    LET stores == Get(cart, "stores") IN
    IF ~Truthy(stores) \/ ~IsList(stores) \/ Len(stores.v) = 0 THEN Str("empty")
    ELSE Str("populated")

CartLooksEmpty(cart) ==
    LET stores == Get(cart, "stores") IN
    IF ~Truthy(stores) \/ ~IsList(stores) \/ Len(stores.v) = 0 THEN Str("empty")
    ELSE IF ~IsObj(stores.v[1]) THEN Raise("AttributeError")
    ELSE LET lines == Get(stores.v[1], "cartLines") IN
         IF ~Truthy(lines) \/ ~IsList(lines) \/ Len(lines.v) = 0
         THEN Str("empty") ELSE Str("populated")

\* The loop of lines 335-341 from store i on: the first store with a
\* non-empty errors array, Null when there is none.
RECURSIVE StoreErrors(_, _)
StoreErrors(stores, i) ==
    IF i > Len(stores) THEN Null
    ELSE IF ~IsObj(stores[i]) THEN Raise("AttributeError")
    ELSE LET errs == Get(stores[i], "errors") IN
         IF ~Truthy(errs) THEN StoreErrors(stores, i + 1)
         ELSE IF errs.t \notin {"str", "list", "obj"} THEN Raise("TypeError")
         ELSE errs

\* Lines 291-343 on the parsed body: the result, or the exception raised.
CreateCartChecks(rd) ==
    IF ~IsObj(rd) THEN Raise("AttributeError")
    ELSE IF Truthy(Get(rd, "errors"))
    THEN FailD(Str("GraphQL top-level error during cart creation"), rd.v["errors"])
    ELSE LET data == GetD(rd, "data", EmptyObj) IN
    IF ~IsObj(data) THEN Raise("AttributeError")
    ELSE LET payload == Get(data, "createCart") IN
    IF ~Truthy(payload)
    THEN FailD(Str("Cart creation failed, 'createCart' payload missing"), rd)
    ELSE IF ~IsObj(payload) THEN Raise("AttributeError")
    ELSE IF Truthy(Get(payload, "errors"))
    THEN FailD(Str("GraphQL error within createCart mutation result"), payload.v["errors"])
    ELSE LET cart == Get(payload, "cart") IN
    IF ~Truthy(cart)
    THEN FailD(Str("Cart ID not found in successful cart creation"), payload)
    ELSE IF ~IsObj(cart) THEN Raise("AttributeError")
    ELSE IF ~Truthy(Get(cart, "id"))
    THEN FailD(Str("Cart ID not found in successful cart creation"), payload)
    ELSE LET shape == CartLooksEmpty(cart) IN
    IF IsRaise(shape) THEN shape
    ELSE IF shape = Str("empty")
    THEN Obj([error |-> Str("Cart created but appears empty or item not added successfully."),
              details |-> Str("No stores or cartLines found in the response, or they are empty."),
              cart_details_received |-> cart])
    ELSE LET errs == StoreErrors(Get(cart, "stores").v, 1) IN
    IF IsRaise(errs) THEN errs
    ELSE IF errs # Null
    THEN Obj([error |-> Str("Store-level error reported during cart creation."),
              details |-> errs,
              cart_details_received |-> cart])
    ELSE payload

\* Lines 282-351: the POST, raise_for_status, json(), the checks, and the
\* two except clauses.
CreateCartResult(resp) ==
    CASE resp.net = "status" ->
           FailD(FStr("HTTP error during cart creation: ", resp.code), resp.text)
      [] resp.net = "ok" ->
           LET r == CreateCartChecks(resp.body) IN
           IF IsRaise(r)
           THEN Fail(FStr("An unexpected error occurred during cart creation: ", r.v))
           ELSE r
      [] resp.net = "badjson" ->
           Fail(FStr("An unexpected error occurred during cart creation: ", "JSONDecodeError"))
      [] OTHER ->
           Fail(FStr("An unexpected error occurred during cart creation: ", "RequestError"))

-----------------------------------------------------------------------------
(* get_rye_cart_details                                                     *)

\* Lines 411-441 on the parsed body.
GetCartChecks(rd) ==
    IF ~IsObj(rd) THEN Raise("AttributeError")
    ELSE IF Truthy(Get(rd, "errors"))
    THEN FailD(Str("GraphQL top-level execution error fetching cart details"),
               rd.v["errors"])
    ELSE LET data == GetD(rd, "data", EmptyObj) IN
    IF ~IsObj(data) THEN Raise("AttributeError")
    ELSE LET payload == Get(data, "getCart") IN
    IF ~Truthy(payload)
    THEN FailD(Str("No 'getCart' payload in response data"), rd)
    ELSE IF ~IsObj(payload) THEN Raise("AttributeError")
    ELSE IF Truthy(Get(payload, "errors"))
    THEN FailD(Str("GraphQL error reported by getCart operation"), payload.v["errors"])
    ELSE LET cart == Get(payload, "cart") IN
    IF ~Truthy(cart)
    THEN FailD(Str("Could not retrieve nested 'cart' details or cart not found"), payload)
    ELSE cart

\* Lines 403-449.
GetCartResult(resp) ==
    CASE resp.net = "status" ->
           FailD(FStr("HTTP error fetching cart: ", resp.code), resp.text)
      [] resp.net = "ok" ->
           LET r == GetCartChecks(resp.body) IN
           IF IsRaise(r) THEN Fail(FStr("Unexpected error fetching cart: ", r.v)) ELSE r
      [] resp.net = "badjson" ->
           Fail(FStr("Unexpected error fetching cart: ", "JSONDecodeError"))
      [] OTHER -> Fail(FStr("Unexpected error fetching cart: ", "RequestError"))

\* Lines 358-363 and the call: the result and the number of POSTs made.
GetRyeCartDetailsUnchecked(e, resp) == [result |-> GetCartResult(resp), calls |-> 1]

GetRyeCartDetails(e, resp) ==
    IF ~EnvSet(e, RyeEnv) THEN [result |-> RyeConfigMissing, calls |-> 0]
    ELSE [result |-> GetCartResult(resp), calls |-> 1]

-----------------------------------------------------------------------------
(* fetch_amazon_product_details                                             *)

\* Lines 186-189: one Image per dict entry of images with a truthy url.
RECURSIVE ImagePreviews(_, _)
ImagePreviews(imgs, i) ==
    IF i > Len(imgs) THEN <<>>
    ELSE LET img == imgs[i]
             rest == ImagePreviews(imgs, i + 1) IN
         IF IsObj(img) /\ Truthy(Get(img, "url"))
         THEN <<[t |-> "image", v |-> img.v["url"]]>> \o rest ELSE rest

\* product with product["image_previews"] = img_objs
WithPreviews(product, previews) ==
    Obj([k \in DOMAIN product.v \cup {"image_previews"} |->
            IF k = "image_previews" THEN List(previews) ELSE product.v[k]])

\* Lines 179-191 on the parsed body.
ProductChecks(rd) ==
    IF ~IsObj(rd) THEN Raise("AttributeError")
    ELSE IF Truthy(Get(rd, "errors"))
    THEN FailD(Str("GraphQL error"), rd.v["errors"])
    ELSE LET data == GetD(rd, "data", EmptyObj) IN
    IF ~IsObj(data) THEN Raise("AttributeError")
    ELSE LET product == Get(data, "product") IN
    IF ~Truthy(product) THEN FailD(Str("Product not found"), rd)
    ELSE IF ~IsObj(product) THEN Raise("AttributeError")
    ELSE LET images == GetD(product, "images", List(<<>>)) IN
    CASE images.t = "list" -> WithPreviews(product, ImagePreviews(images.v, 1))
      [] images.t \in {"str", "obj"} -> WithPreviews(product, <<>>)
      [] OTHER -> Raise("TypeError")

\* Lines 171-198.
ProductResult(resp) ==
    CASE resp.net = "status" -> FailD(FStr("HTTP error ", resp.code), resp.text)
      [] resp.net = "ok" ->
           LET r == ProductChecks(resp.body) IN
           IF IsRaise(r) THEN Fail(Str(r.v)) ELSE r
      [] resp.net = "badjson" -> Fail(Str("JSONDecodeError"))
      [] OTHER -> Fail(Str("RequestError"))

RyeConfigMissingLong ==
    Fail(Str("RYE_AUTH_HEADER or RYE_SHOPPER_IP not set in environment variables."))

FetchAmazonProductDetails(e, resp) ==
    IF ~EnvSet(e, RyeEnv) THEN [result |-> RyeConfigMissingLong, calls |-> 0]
    ELSE [result |-> ProductResult(resp), calls |-> 1]

-----------------------------------------------------------------------------
(* request_amazon_product_tracking                                          *)

\* Lines 106-124 on the parsed body.
TrackingChecks(rd) ==
    IF ~IsObj(rd) THEN Raise("AttributeError")
    ELSE IF Truthy(Get(rd, "errors"))
    THEN FailD(Str("GraphQL error from Rye"), rd.v["errors"])
    ELSE LET data == GetD(rd, "data", EmptyObj) IN
    IF ~IsObj(data) THEN Raise("AttributeError")
    ELSE LET req == GetD(data, "requestAmazonProductByURL", EmptyObj) IN
    IF ~IsObj(req) THEN Raise("AttributeError")
    ELSE LET product_id == Get(req, "productId") IN
    IF ~Truthy(product_id) THEN FailD(Str("productId not found in Rye response"), rd)
    ELSE Obj([productId |-> product_id])

\* Lines 97-134.
TrackingResult(resp) ==
    CASE resp.net = "status" ->
           FailD(FStr("HTTP error occurred while contacting Rye: ", resp.code), resp.text)
      [] resp.net = "ok" ->
           LET r == TrackingChecks(resp.body) IN
           IF IsRaise(r) THEN Fail(FStr("An unexpected error occurred: ", r.v)) ELSE r
      [] resp.net = "badjson" ->
           Fail(FStr("An unexpected error occurred: ", "JSONDecodeError"))
      [] OTHER ->
           Fail(FStr("Request error occurred while contacting Rye: ", "RequestError"))

RequestAmazonProductTracking(e, resp) ==
    IF ~EnvSet(e, RyeEnv) THEN [result |-> RyeConfigMissingLong, calls |-> 0]
    ELSE [result |-> TrackingResult(resp), calls |-> 1]

\* Lines 224-229 and the call.
CreateAmazonCart(e, resp) ==
    IF ~EnvSet(e, RyeEnv) THEN [result |-> RyeConfigMissing, calls |-> 0]
    ELSE [result |-> CreateCartResult(resp), calls |-> 1]

-----------------------------------------------------------------------------
(* research_products                                                        *)

\* Lines 44-53: title/url/snippet of each result, "N/A" and "" for a missing
\* field; a result that is not a dict raises.
RECURSIVE ProcessResults(_, _)
ProcessResults(rs, i) ==
    IF i > Len(rs) THEN List(<<>>)
    ELSE IF ~IsObj(rs[i]) THEN Raise("AttributeError")
    ELSE LET rest == ProcessResults(rs, i + 1) IN
         IF IsRaise(rest) THEN rest
         ELSE List(<<Obj([title |-> GetD(rs[i], "title", Str("N/A")),
                          url |-> GetD(rs[i], "url", Str("N/A")),
                          snippet |-> GetD(rs[i], "description", Str(""))])>> \o rest.v)

\* Lines 35-65; found is what the client's search returned, or its exception.
SearchResult(found) ==
    IF IsRaise(found)
    THEN Fail(FStr("An error occurred during Firecrawl search: ", found.v))
    ELSE IF ~Truthy(found)
    THEN FailD(Str("Unexpected format from Firecrawl search."), found)
    ELSE IF ~IsList(found)
    THEN Fail(FStr("An error occurred during Firecrawl search: ", "AttributeError"))
    ELSE LET processed == ProcessResults(found.v, 1) IN
         IF IsRaise(processed)
         THEN Fail(FStr("An error occurred during Firecrawl search: ", processed.v))
         ELSE Obj([results |-> processed])

ResearchProducts(e, found) ==
    IF ~EnvSet(e, FirecrawlEnv)
    THEN [result |-> Fail(Str("FIRECRAWL_API_KEY not set.")), calls |-> 0]
    ELSE [result |-> SearchResult(found), calls |-> 1]

-----------------------------------------------------------------------------
(* The datastore: two tables, and what one execute() can do.                *)

\* A dict extended (or overwritten) by the keys of another.
Merge(f, g) == [k \in DOMAIN f \cup DOMAIN g |-> IF k \in DOMAIN g THEN g[k] ELSE f[k]]

\* execute() answers with data, answers with an error object on the
\* response, or raises.
DbOutcomes == {"ok", "error", "raise"}

\* The columns the table fills in by default when a row is inserted.
StampRow(data, time) ==
    Obj(Merge(data.v, [created_at |-> Num(time), ordered_at |-> Num(time)]))

\* table("orders").insert(order_data)
InsertOrderTwice(table, data, time) ==
    table \o <<StampRow(data, time), StampRow(data, time)>>

InsertOrder(table, data, time) == table \o <<StampRow(data, time)>>

\* table("spending_limits").upsert(row, on_conflict="user_identifier"): the
\* row with the same user_identifier is replaced, else the row is added.
UpsertAsInsert(table, row) == table \o <<row>>

UpsertLimit(table, row) ==
    IF \E i \in 1..Len(table) : table[i].v["user_identifier"] = row.v["user_identifier"]
    THEN [i \in 1..Len(table) |->
            IF table[i].v["user_identifier"] = row.v["user_identifier"]
            THEN row ELSE table[i]]
    ELSE table \o <<row>>

-----------------------------------------------------------------------------
(* Money: the provider's values are minor units (cents); the order row      *)
(* keeps major units, as a decimal with two places.                         *)

Dec(units, frac) == [t |-> "dec", units |-> units, frac |-> frac]

\* cents / 100
CentsToDollars(c) == Dec(c \div 100, c % 100)
ToCents(d) == d.units * 100 + d.frac

\* The strings float() parses, with their values; it raises ValueError on
\* any other string and TypeError on a list or a dict.
NumericStrings == {"500"}
StrValue(str) == CASE str = "500" -> 500 [] OTHER -> 0

ToFloat(x) ==
    CASE x.t = "num" -> x
      [] x.t = "str" -> IF x.v \in NumericStrings THEN Num(StrValue(x.v))
                        ELSE Raise("ValueError")
      [] OTHER -> Raise("TypeError")

-----------------------------------------------------------------------------------------------------------------------------------------------------
(* Python floats.  The amounts of get_spending_status are IEEE-754 doubles: *)
(* a double is m * 2^e with m a natural number of exactly 53 bits (or 0),   *)
(* and every operation rounds its exact result to the nearest double, ties  *)
(* to the even m.  A natural wider than the integers of the checker is a    *)
(* sequence of limbs of 14 bits, the least significant limb first, the last *)
(* limb not 0.                                                              *)

LimbBits == 14
Limb == 2 ^ LimbBits

LimbAt(a, i) == IF i >= 1 /\ i <= Len(a) THEN a[i] ELSE 0

NatNorm(a) ==
    LET used == {i \in 1..Len(a) : a[i] # 0} IN
    IF used = {} THEN <<>>
    ELSE SubSeq(a, 1, CHOOSE i \in used : \A j \in used : j <= i)

\* The limbs of the number whose columns (not yet below Limb) are cols.
RECURSIVE NatCarryFrom(_, _, _)
NatCarryFrom(cols, i, carry) ==
    IF i > Len(cols) /\ carry = 0 THEN <<>>
    ELSE <<(LimbAt(cols, i) + carry) % Limb>>
            \o NatCarryFrom(cols, i + 1, (LimbAt(cols, i) + carry) \div Limb)

NatCarry(cols) == NatNorm(NatCarryFrom(cols, 1, 0))

NatAdd(a, b) ==
    NatCarry([i \in 1..(IF Len(a) > Len(b) THEN Len(a) ELSE Len(b)) |->
                 LimbAt(a, i) + LimbAt(b, i)])

\* the sum of a[i] * b[k + 1 - i] over i from 1 to upto
RECURSIVE ColumnSum(_, _, _, _)
ColumnSum(a, b, k, upto) ==
    IF upto = 0 THEN 0
    ELSE LimbAt(a, upto) * LimbAt(b, k + 1 - upto) + ColumnSum(a, b, k, upto - 1)

\* a * b, for a and b of at most four limbs each
NatMul(a, b) ==
    IF a = <<>> \/ b = <<>> THEN <<>>
    ELSE NatCarry([k \in 1..(Len(a) + Len(b) - 1) |-> ColumnSum(a, b, k, Len(a))])

\* a * 2^k
NatShl(a, k) ==
    NatCarry([i \in 1..(k \div LimbBits) |-> 0]
             \o [i \in 1..Len(a) |-> a[i] * 2 ^ (k % LimbBits)])

\* a \div 2^k
NatShr(a, k) ==
    LET skip == k \div LimbBits
        s == k % LimbBits IN
    NatNorm([i \in 1..(IF Len(a) > skip THEN Len(a) - skip ELSE 0) |->
               (LimbAt(a, i + skip) \div 2 ^ s)
                 + (LimbAt(a, i + skip + 1) % 2 ^ s) * 2 ^ (LimbBits - s)])

\* bit i of a, bit 0 the least significant
NatBit(a, i) == (LimbAt(a, i \div LimbBits + 1) \div 2 ^ (i % LimbBits)) % 2

NatBitLen(a) ==
    IF a = <<>> THEN 0
    ELSE (Len(a) - 1) * LimbBits
           + CHOOSE k \in 1..LimbBits : a[Len(a)] \div 2 ^ (k - 1) = 1

NatGreater(a, b) ==
    IF Len(a) # Len(b) THEN Len(a) > Len(b)
    ELSE \E i \in 1..Len(a) :
            /\ a[i] > b[i]
            /\ \A j \in (i + 1)..Len(a) : a[j] = b[j]

\* The quotient of a by a small d, from limb i of a down; the first
\* element of the result tells whether the division leaves a remainder.
RECURSIVE NatDivFrom(_, _, _, _)
NatDivFrom(a, d, i, rem) ==
    IF i = 0 THEN <<IF rem = 0 THEN 0 ELSE 1>>
    ELSE NatDivFrom(a, d, i - 1, (rem * Limb + a[i]) % d)
            \o <<(rem * Limb + a[i]) \div d>>

MantissaBits == 53

DZero == [m |-> <<>>, e |-> 0]

\* The double nearest to n * 2^e, for n a natural of any width.
DRound(n, e) ==
    LET drop == NatBitLen(n) - MantissaBits
        kept == NatShr(n, drop)
        up == /\ NatBit(n, drop - 1) = 1
              /\ \/ \E j \in 0..(drop - 2) : NatBit(n, j) = 1
                 \/ NatBit(kept, 0) = 1
        m == IF up THEN NatAdd(kept, <<1>>) ELSE kept IN
    IF n = <<>> THEN DZero
    ELSE IF drop <= 0 THEN [m |-> NatShl(n, -drop), e |-> e + drop]
    ELSE IF NatBitLen(m) > MantissaBits
    THEN [m |-> NatShr(m, 1), e |-> e + drop + 1]
    ELSE [m |-> m, e |-> e + drop]

\* The double nearest to num / den, as float() gives for a decimal that
\* JSON carries and as the compiler gives for the literal 0.9: the
\* quotient is taken to 70 binary places and one more for what is left.
GuardLimbs == 5

DRatio(num, den) ==
    LET n == [i \in 1..GuardLimbs |-> 0] \o NatCarry(<<num>>)
        d == NatDivFrom(n, den, Len(n), 0) IN
    IF num = 0 THEN DZero
    ELSE DRound(NatAdd(NatShl(NatNorm(Tail(d)), 1), NatCarry(<<Head(d)>>)),
                -(GuardLimbs * LimbBits) - 1)

\* x * y
DMul(x, y) == DRound(NatMul(x.m, y.m), x.e + y.e)

\* x + y, for x and y not negative
DAdd(x, y) ==
    IF x = DZero THEN y
    ELSE IF y = DZero THEN x
    ELSE LET e == IF x.e < y.e THEN x.e ELSE y.e IN
         DRound(NatAdd(NatShl(x.m, x.e - e), NatShl(y.m, y.e - e)), e)

\* x >= y, for x and y not negative
DGreaterEq(x, y) ==
    IF y = DZero THEN TRUE
    ELSE IF x = DZero THEN FALSE
    ELSE IF x.e # y.e THEN x.e > y.e
    ELSE ~NatGreater(y.m, x.m)

-----
(* checkout_amazon_cart                                                     *)

SupabaseConfigMissing == Fail(Str("Supabase URL or service role key not configured."))

\* (cost_info.get(name) or {}): a component that is truthy and not a dict
\* raises at the .get that follows.
CostPart(cost, name) == Or(Get(cost, name), EmptyObj)

\* float((cost_info.get(name) or {}).get("value") or 0)
RawValue(cost, name) ==
    LET part == CostPart(cost, name) IN
    IF ~IsObj(part) THEN Raise("AttributeError")
    ELSE ToFloat(Or(Get(part, "value"), Num(0)))

\* Lines 473-479: the total in major units, or the exception raised.
TotalWithoutTax(cart) ==
    LET cost == Or(Get(cart, "cost"), EmptyObj) IN
    IF ~IsObj(cost) THEN Raise("AttributeError")
    ELSE LET subtotal_raw == RawValue(cost, "subtotal") IN
    IF IsRaise(subtotal_raw) THEN subtotal_raw
    ELSE LET shipping_raw == RawValue(cost, "shipping") IN
    IF IsRaise(shipping_raw) THEN shipping_raw
    ELSE LET tax_raw == RawValue(cost, "tax") IN
    IF IsRaise(tax_raw) THEN tax_raw
    ELSE CentsToDollars(subtotal_raw.v + shipping_raw.v)

TotalValue(cart) ==
    LET cost == Or(Get(cart, "cost"), EmptyObj) IN
    IF ~IsObj(cost) THEN Raise("AttributeError")
    ELSE LET subtotal_raw == RawValue(cost, "subtotal") IN
    IF IsRaise(subtotal_raw) THEN subtotal_raw
    ELSE LET shipping_raw == RawValue(cost, "shipping") IN
    IF IsRaise(shipping_raw) THEN shipping_raw
    ELSE LET tax_raw == RawValue(cost, "tax") IN
    IF IsRaise(tax_raw) THEN tax_raw
    ELSE CentsToDollars(subtotal_raw.v + shipping_raw.v + tax_raw.v)

\* Lines 481-485, evaluated after the total: every component is None or a dict.
TotalCurrency(cart) ==
    LET cost == Or(Get(cart, "cost"), EmptyObj) IN
    Or(Get(CostPart(cost, "subtotal"), "currency"),
       Or(Get(CostPart(cost, "shipping"), "currency"),
          Get(CostPart(cost, "tax"), "currency")))

\* Lines 489-500: the snapshot entries of one store's cart lines.
RECURSIVE LineItems(_, _)
LineItems(lines, i) ==
    IF i > Len(lines) THEN List(<<>>)
    ELSE IF ~IsObj(lines[i]) THEN Raise("AttributeError")
    ELSE LET prod == Or(Get(lines[i], "product"), EmptyObj) IN
    IF ~IsObj(prod) THEN Raise("AttributeError")
    ELSE LET price == Or(Get(prod, "price"), EmptyObj) IN
    IF ~IsObj(price) THEN Raise("AttributeError")
    ELSE LET rest == LineItems(lines, i + 1) IN
    IF IsRaise(rest) THEN rest
    ELSE List(<<Obj([productId |-> Get(prod, "id"),
                     title |-> Get(prod, "title"),
                     quantity |-> Get(lines[i], "quantity"),
                     price_value |-> Get(price, "value"),
                     price_currency |-> Get(price, "currency")])>> \o rest.v)

\* What a for loop iterates over: the elements of a list, the characters of
\* a str and the keys of a dict (strings both), a TypeError otherwise.
Iterate(x) ==
    CASE x.t = "list" -> x
      [] x.t = "str" -> List(<<Str("c")>>)
      [] x.t = "obj" -> List(<<Str("k")>>)
      [] OTHER -> Raise("TypeError")

\* Lines 487-500: all stores' line items, in order.
RECURSIVE StoreItems(_, _)
StoreItems(stores, i) ==
    IF i > Len(stores) THEN List(<<>>)
    ELSE IF ~IsObj(stores[i]) THEN Raise("AttributeError")
    ELSE LET lines == Iterate(Or(Get(stores[i], "cartLines"), List(<<>>))) IN
    IF IsRaise(lines) THEN lines
    ELSE LET items == LineItems(lines.v, 1) IN
    IF IsRaise(items) THEN items
    ELSE LET rest == StoreItems(stores, i + 1) IN
    IF IsRaise(rest) THEN rest
    ELSE List(items.v \o rest.v)

ItemsSnapshot(cart) ==
    LET stores == Iterate(Or(Get(cart, "stores"), List(<<>>))) IN
    IF IsRaise(stores) THEN stores ELSE StoreItems(stores.v, 1)

\* Lines 504-512.
OrderData(cart_id, buyer_info, total_value, total_currency, items_snapshot) ==
    Obj([rye_order_id |-> Null,
         rye_cart_id |-> cart_id,
         user_identifier |-> Get(buyer_info, "email"),
         status |-> Str("CREATED"),
         total_amount_value |-> total_value,
         total_amount_currency |-> total_currency,
         items_snapshot |-> items_snapshot])

\* Lines 501-527: the insert and what is returned for each answer of the
\* datastore; table is the orders table after the call.
RecordOrderOncePerBuyer(table, order_data, db, time) ==
    IF \E i \in 1..Len(table) :
          table[i].v["user_identifier"] = order_data.v["user_identifier"]
    THEN [result |-> Fail(Str("Daily spending limit reached")), table |-> table]
    ELSE [result |-> Obj([status |-> Str("success"),
                          order_data |-> order_data,
                          supabase_insert |-> List(<<StampRow(order_data, time)>>)]),
          table |-> InsertOrder(table, order_data, time)]

RecordOrder(table, order_data, db, time) ==
    CASE db = "ok" ->
           [result |-> Obj([status |-> Str("success"),
                            order_data |-> order_data,
                            supabase_insert |-> List(<<StampRow(order_data, time)>>)]),
            table |-> InsertOrder(table, order_data, time)]
      [] db = "error" ->
           [result |-> Obj([error |-> Str("Supabase insert failed"),
                            details |-> Str("error.message"),
                            order_data |-> order_data]),
            table |-> table]
      [] OTHER ->
           [result |-> Fail(FStr("Checkout failed: ", "APIError")),
            table |-> table]

\* Line 467: cart_details.get("error")
FetchNeverFailed(cart_details) == FALSE

FetchFailed(cart_details) == Truthy(Get(cart_details, "error"))

\* Lines 453-527.  fetched is what the internal get_rye_cart_details call
\* gives for the provider's answer resp; an exception of lines 473-500 is
\* not inside any try and leaves the tool.
CheckoutAmazonCart(e, table, cart_id, buyer_info, resp, db, time) ==
    IF ~EnvSet(e, SupabaseEnv)
    THEN [result |-> SupabaseConfigMissing, calls |-> 0, inserts |-> 0, table |-> table]
    ELSE LET fetched == GetRyeCartDetails(e, resp)
             cart_details == fetched.result
             stop(r) == [result |-> r, calls |-> fetched.calls, inserts |-> 0,
                         table |-> table] IN
    IF ~IsObj(cart_details)
    THEN stop(FailD(Str("Invalid cart details received"), cart_details))
    ELSE IF FetchFailed(cart_details)
    THEN stop(FailD(Str("Failed to fetch cart details before checkout"), cart_details))
    ELSE LET total_value == TotalValue(cart_details) IN
    IF IsRaise(total_value) THEN stop(total_value)
    ELSE LET items_snapshot == ItemsSnapshot(cart_details) IN
    IF IsRaise(items_snapshot) THEN stop(items_snapshot)
    ELSE LET order_data == OrderData(cart_id, buyer_info, total_value,
                                     TotalCurrency(cart_details), items_snapshot)
             done == RecordOrder(table, order_data, db, time) IN
         [result |-> done.result, calls |-> fetched.calls + 1, inserts |-> 1,
          table |-> done.table]

-----------------------------------------------------------------------------
(* list_my_purchases                                                        *)

\* .order("ordered_at", desc=True): the row with the latest ordered_at
\* first, rows of equal ordered_at in table order.
RECURSIVE OrderDesc(_)
OrderDesc(rows) ==
    IF rows = <<>> THEN <<>>
    ELSE LET top == CHOOSE i \in 1..Len(rows) :
                        /\ \A j \in 1..Len(rows) :
                               rows[j].v["ordered_at"].v <= rows[i].v["ordered_at"].v
                        /\ \A j \in 1..(i - 1) :
                               rows[j].v["ordered_at"].v < rows[i].v["ordered_at"].v
             others == [j \in 1..(Len(rows) - 1) |->
                          IF j < top THEN rows[j] ELSE rows[j + 1]] IN
         <<rows[top]>> \o OrderDesc(others)

\* .limit(n)
TakeAll(rows, n) == rows

Take(rows, n) == IF n >= Len(rows) THEN rows ELSE SubSeq(rows, 1, n)

\* Lines 532-558.
ListMyPurchases(e, table, limit, db) ==
    IF ~EnvSet(e, SupabaseEnv)
    THEN [result |-> Fail(Str("Supabase URL or key not set in environment.")),
          calls |-> 0]
    ELSE [calls |-> 1,
          result |->
            CASE db = "ok" ->
                   Obj([status |-> Str("success"),
                        orders |-> List(Take(OrderDesc(table), limit))])
              [] db = "error" ->
                   FailD(Str("Supabase query failed"), Str("error.message"))
              [] OTHER ->
                   Fail(FStr("Unexpected error fetching purchases: ", "APIError"))]

-----------------------------------------------------------------------------
(* set_spending_limit                                                       *)

LimitRow(user_identifier, limit_value) ==
    Obj([user_identifier |-> Str(user_identifier), limit_value |-> limit_value])

\* Lines 563-590; table is the spending_limits table after the call.
SetSpendingLimit(e, table, user_identifier, limit_value, db) ==
    IF ~EnvSet(e, SupabaseEnv)
    THEN [result |-> SupabaseConfigMissing, calls |-> 0, table |-> table]
    ELSE CASE db = "ok" ->
                LET after == UpsertLimit(table, LimitRow(user_identifier, limit_value)) IN
                [result |-> Obj([status |-> Str("success"),
                                 message |-> FStr("Spending limit set to {} for {}.",
                                                  <<limit_value, user_identifier>>),
                                 data |-> List(<<LimitRow(user_identifier, limit_value)>>)]),
                 calls |-> 1, table |-> after]
           [] db = "error" ->
                [result |-> FailD(Str("Failed to set spending limit"), Str("error.message")),
                 calls |-> 1, table |-> table]
           [] OTHER ->
                [result |-> Fail(FStr("An unexpected error occurred: ", "APIError")),
                 calls |-> 1, table |-> table]

-----------------------------------------------------------------------------
(* get_spending_status                                                      *)

\* limit_value = 1e30 when the user has no row: a float next to which any
\* sum of order totals vanishes (1e30 - x = 1e30, x >= 0.9e30 is false).
VeryHigh == [t |-> "float", v |-> "1e30"]

\* .eq("user_identifier", u) on spending_limits
LimitRowsOf(table, user_identifier) ==
    LET Mine(row) == row.v["user_identifier"] = Str(user_identifier) IN
    SelectSeq(table, Mine)

\* Lines 614-617.
LimitValueOf(rows) ==
    IF Len(rows) > 0 THEN GetD(rows[1], "limit_value", Dec(0, 0)) ELSE VeryHigh

\* Lines 619-620: midnight of the current day.
TodayStart(time, day) == time - (time % day)

\* select(total_amount_value, total_amount_currency, created_at)
StatusColumns(row) ==
    Obj([total_amount_value |-> row.v["total_amount_value"],
         total_amount_currency |-> row.v["total_amount_currency"],
         created_at |-> row.v["created_at"]])

\* Lines 621-627: the user's orders created at or after today_start.
OrdersToday(table, user_identifier, today_start) ==
    LET Mine(row) == /\ row.v["user_identifier"] = Str(user_identifier)
                     /\ row.v["created_at"].v >= today_start
        mine == SelectSeq(table, Mine) IN
    [i \in 1..Len(mine) |-> StatusColumns(mine[i])]

\* Lines 634-636: sum() adds the floats from the left, starting at 0, and
\* every addition rounds.
FloatOf(x) == IF x.t = "dec" THEN DRatio(ToCents(x), 100) ELSE DZero

RECURSIVE TotalSpentFrom(_, _, _)
TotalSpentFrom(rows, i, acc) ==
    IF i > Len(rows) THEN acc
    ELSE TotalSpentFrom(rows, i + 1,
                        DAdd(acc, FloatOf(rows[i].v["total_amount_value"])))

\* The amounts that are reported are kept to the cent: the float of the
\* code is the double nearest to it, or a rounding error away from that.
RECURSIVE SpentCents(_, _)
SpentCents(rows, i) ==
    IF i > Len(rows) THEN 0
    ELSE ToCents(rows[i].v["total_amount_value"]) + SpentCents(rows, i + 1)

\* Line 639: total_spent >= limit_value, on the doubles.
ReachedLimit(total_spent, limit_value) ==
    IF limit_value = VeryHigh THEN FALSE
    ELSE DGreaterEq(total_spent, FloatOf(limit_value))

\* Line 641: total_spent >= 0.9 * limit_value, on the doubles.
NearLimit(total_spent, limit_value) ==
    IF limit_value = VeryHigh THEN FALSE
    ELSE DGreaterEq(total_spent, DMul(DRatio(9, 10), FloatOf(limit_value)))

\* Line 637.
Remaining(limit_value, spent) ==
    IF limit_value = VeryHigh THEN VeryHigh
    ELSE CentsToDollars(ToCents(limit_value) - spent)

ReachedAdvice ==
    Str("Whoa, you've hit or exceeded your daily spending limit! Time for some anti-retail therapy.")
NearAdvice ==
    Str("You're getting close to your daily limit - maybe take a breath before splurging more.")
ClearAdvice == Str("All clear! You have room to spend today.")

\* Lines 639-644.
Advice(total_spent, limit_value) ==
    IF ReachedLimit(total_spent, limit_value) THEN ReachedAdvice
    ELSE IF NearLimit(total_spent, limit_value) THEN NearAdvice
    ELSE ClearAdvice

\* Lines 594-654; db1 and db2 are the answers to the two queries.
GetSpendingStatus(e, limitTable, orderTable, user_identifier, db1, db2, time, day) ==
    IF ~EnvSet(e, SupabaseEnv)
    THEN [result |-> SupabaseConfigMissing, calls |-> 0]
    ELSE IF db1 = "raise"
    THEN [result |-> Fail(FStr("An unexpected error occurred: ", "APIError")), calls |-> 1]
    ELSE IF db1 = "error"
    THEN [result |-> FailD(Str("Failed to fetch spending limit"), Str("error.message")),
          calls |-> 1]
    ELSE IF db2 = "raise"
    THEN [result |-> Fail(FStr("An unexpected error occurred: ", "APIError")), calls |-> 2]
    ELSE IF db2 = "error"
    THEN [result |-> FailD(Str("Failed to fetch today's orders"), Str("error.message")),
          calls |-> 2]
    ELSE LET limit_value == LimitValueOf(LimitRowsOf(limitTable, user_identifier))
             orders_today == OrdersToday(orderTable, user_identifier,
                                         TodayStart(time, day))
             total_spent == SpentCents(orders_today, 1) IN
         [result |-> Obj([status |-> Str("success"),
                          spending_limit |-> limit_value,
                          total_spent_today |-> CentsToDollars(total_spent),
                          remaining_limit |-> Remaining(limit_value, total_spent),
                          transactions_today |-> List(orders_today),
                          advice |-> Advice(TotalSpentFrom(orders_today, 1, DZero), limit_value)]),
          calls |-> 2]

-----------------------------------------------------------------------------
(* Bounds and the inputs the operations are tried on.                       *)

MaxOrders == 2          \* rows of the orders table in Spec
MaxStores == 2          \* stores of a cart in a createCart answer
MaxListLimit == 3       \* largest limit given to list_my_purchases
DayLen == 2             \* clock ticks in one UTC day

Users == {"u1", "u2"}
CartIds == {Str("c1"), Str("c2")}

\* A key that is left out of a dict.
Absent == [t |-> "absent"]
Opt(k, val) == IF val = Absent THEN NoKeys ELSE [x \in {k} |-> val]

Errs == List(<<Obj([code |-> Str("E1"), message |-> Str("refused")])>>)

\* buyer_info: with an email, with a null email, without the key.
BuyerInfos ==
    {Obj([email |-> Str(u)]) : u \in Users}
        \cup {Obj([name |-> Str("n")]), Obj([email |-> Null])}

NetFailures ==
    {NetError,
     [net |-> "status", code |-> 500, text |-> Str("Internal Server Error")],
     [net |-> "badjson"]}

\* The body of a GraphQL answer: top-level errors and data.field.
Body(topErrors, field, payload) ==
    Obj(Merge(Opt("errors", topErrors), Opt("data", Obj(Opt(field, payload)))))

(* createCart answers *)

CartLine == Obj([quantity |-> Num(1),
                 product |-> Obj([id |-> Str("B01"), title |-> Str("Kettle")])])

StoreShapes ==
    {Null} \cup
    {Obj(Merge(Opt("cartLines", l), Opt("errors", er))) :
        l \in {Absent, List(<<>>), List(<<CartLine>>)},
        er \in {Absent, List(<<>>), Errs}}

StoresShapes ==
    {Absent, Null, Str("none")} \cup {List(q) : q \in UNION {[1..k -> StoreShapes] : k \in 0..MaxStores}}

CreatedCartShapes ==
    {Absent, Null, Str("cart")} \cup
    {Obj(Merge(Opt("id", i), Opt("stores", st))) :
        i \in {Absent, Str("c1")}, st \in StoresShapes}

CreateCartPayloads ==
    {Absent, Null, Str("payload")} \cup
    {Obj(Merge(Opt("cart", c), Opt("errors", er))) :
        c \in CreatedCartShapes, er \in {Absent, Null, List(<<>>), Errs}}

AllCreateCartAnswers ==
    NetFailures \cup {NetOk(List(<<>>)), NetOk(Obj([data |-> Null]))}
        \cup {NetOk(Body(te, "createCart", pl)) :
                te \in {Absent, Errs}, pl \in CreateCartPayloads}

CreateCartAnswers ==
    {NetError,
     NetOk(Body(Absent, "createCart",
                Obj([cart |-> Obj([id |-> Str("c1"),
                                   stores |-> List(<<Obj([cartLines |-> List(<<CartLine>>),
                                                          errors |-> List(<<>>)])>>)]),
                     errors |-> List(<<>>)]))),
     NetOk(Body(Absent, "createCart",
                Obj([cart |-> Obj([id |-> Str("c1"), stores |-> List(<<>>)]),
                     errors |-> List(<<>>)])))}

(* getCart answers *)

Money(val, cur) == Obj(Merge(Opt("value", val), Opt("currency", cur)))

PricedLine == Obj([quantity |-> Num(2),
                   product |-> Obj([id |-> Str("B01"), title |-> Str("Kettle"),
                                    price |-> Money(Num(500), Str("USD"))])])

PricedStore == Obj([cartLines |-> List(<<PricedLine>>)])

CostOf(sub, ship, tax) ==
    Obj(Merge(Merge(Opt("subtotal", sub), Opt("shipping", ship)), Opt("tax", tax)))

FetchedCart(cost, stores) ==
    Obj(Merge([id |-> Str("c1")], Merge(Opt("cost", cost), Opt("stores", stores))))

\* subtotal=1000, shipping=500, tax=0: 15.00
StandardCost == CostOf(Money(Num(1000), Str("USD")), Money(Num(500), Str("USD")),
                       Money(Num(0), Str("USD")))

CostShapes ==
    {Absent, Null, Str("cost")} \cup
    {CostOf(sub, ship, tax) :
        sub \in {Absent, Null, Money(Num(1000), Str("USD"))},
        ship \in {Absent, Null, Money(Num(500), Str("USD"))},
        tax \in {Absent, Null, Money(Num(0), Str("USD")), Money(Num(250), Absent)}}
    \cup {CostOf(Money(Str("N/A"), Absent), Absent, Absent),
          CostOf(Money(Num(1000), Null), Str("free"), Absent),
          CostOf(Money(Null, Null), Money(Str("500"), Str("USD")), Money(List(<<>>), Absent)),
          CostOf(Absent, Absent, Money(Obj([amount |-> Num(1)]), Absent))}

FetchedStoresShapes ==
    {Absent, Null, List(<<>>), List(<<PricedStore>>), List(<<PricedStore, PricedStore>>),
     List(<<Null>>), List(<<Obj([cartLines |-> List(<<Str("line")>>)])>>),
     List(<<Obj([cartLines |-> List(<<Obj([quantity |-> Num(1)])>>)])>>), Str("none")}

FetchedCartShapes ==
    {FetchedCart(c, List(<<PricedStore>>)) : c \in CostShapes}
        \cup {FetchedCart(StandardCost, st) : st \in FetchedStoresShapes}

GetCartPayloads ==
    {Absent, Null, Str("payload"),
     Obj([cart |-> Null, errors |-> Errs]),
     Obj([cart |-> Null, errors |-> List(<<>>)]),
     Obj([cart |-> List(<<Str("cart")>>), errors |-> List(<<>>)]),
     Obj([cart |-> Obj([id |-> Str("c1"), error |-> Str("flagged")])])}

AllGetCartAnswers ==
    NetFailures \cup {NetOk(List(<<>>))}
        \cup {NetOk(Body(Errs, "getCart", Absent))}
        \cup {NetOk(Body(Absent, "getCart", pl)) : pl \in GetCartPayloads}
        \cup {NetOk(Body(Absent, "getCart", Obj([cart |-> c, errors |-> Null]))) :
                c \in FetchedCartShapes}

GetCartAnswers ==
    {NetError,
     NetOk(Body(Absent, "getCart", Obj([cart |-> Null, errors |-> Errs]))),
     NetOk(Body(Absent, "getCart",
                Obj([cart |-> FetchedCart(StandardCost, List(<<PricedStore>>)),
                     errors |-> Null])))}

(* product answers *)

ProductShapes ==
    {Absent, Null, Str("product")} \cup
    {Obj(Merge([title |-> Str("Kettle")], Merge(Opt("images", im), Opt("errors", er)))) :
        im \in {Absent, Null, List(<<>>),
                List(<<Obj([url |-> Str("http://img/1")]), Obj([url |-> Null]), Null>>)},
        er \in {Absent, List(<<>>)}}

ProductAnswers ==
    NetFailures \cup {NetOk(Body(Errs, "product", Absent))}
        \cup {NetOk(Body(Absent, "product", pr)) : pr \in ProductShapes}

TrackingAnswers ==
    NetFailures \cup
    {NetOk(Body(Errs, "requestAmazonProductByURL", Absent)),
     NetOk(Body(Absent, "requestAmazonProductByURL", Absent)),
     NetOk(Body(Absent, "requestAmazonProductByURL", Null)),
     NetOk(Body(Absent, "requestAmazonProductByURL", Obj([productId |-> Null]))),
     NetOk(Body(Absent, "requestAmazonProductByURL", Obj([productId |-> Str("B01")])))}

SearchAnswers ==
    {Raise("ConnectionError"), List(<<>>),
     List(<<Obj([title |-> Str("Kettle"), url |-> Str("http://shop/1"),
                 description |-> Str("boils")]),
            Obj([url |-> Str("http://shop/2")])>>),
     List(<<Str("hit")>>)}

-----------------------------------------------------------------------------------------------------------------------------------------------------
(* The state machine: one action per tool invocation.  The handlers have no *)
(* await between their datastore call and their return, and the only await  *)
(* of checkout is the cart fetch, which reads no state of this model, so an *)
(* invocation is one step.                                                  *)

NoArgs == [k \in {} |-> Null]

\* pending is the checkout that waits at its await for the provider's
\* answer to the cart query (lines 461 and 405), if there is one.
NoCheckout == Null

Init ==
    /\ env \in SUBSET EnvNames
    /\ orders = <<>>
    /\ limits = <<>>
    /\ now = 0
    /\ last = [op |-> "none", args |-> NoArgs, resp |-> Null, db |-> "none",
               result |-> Null, calls |-> 0, inserts |-> 0]
    /\ lastSet = [u \in Users |-> Null]
    /\ pending = NoCheckout

\* The server with every environment value set.
InitConfigured == Init /\ env = EnvNames

\* No tool has been invoked yet.
Fresh == last.op = "none"

\* A tool that touches no table.
Stateless(op, resp, outs) ==
    \E out \in outs :
        /\ last' = [op |-> op, args |-> NoArgs, resp |-> resp, db |-> "none",
                    result |-> out.result, calls |-> out.calls, inserts |-> 0]
        /\ UNCHANGED <<env, orders, limits, now, lastSet, pending>>

CallResearchProducts(Answers) ==
    \E found \in Answers :
        Stateless("research_products", found, {ResearchProducts(env, found)})

CallRequestTracking(Answers) ==
    \E resp \in Answers :
        Stateless("request_amazon_product_tracking", resp,
                  {RequestAmazonProductTracking(env, resp)})

CallFetchProduct(Answers) ==
    \E resp \in Answers :
        Stateless("fetch_amazon_product_details", resp,
                  {FetchAmazonProductDetails(env, resp)})

CallCreateCart(Answers) ==
    \E resp \in Answers :
        Stateless("create_amazon_cart", resp, {CreateAmazonCart(env, resp)})

CallGetCart(Answers) ==
    \E resp \in Answers :
        Stateless("get_rye_cart_details", resp, {GetRyeCartDetails(env, resp)})

\* The order row gets the time of the insert, and time moves on.
FinishCheckout(cart_id, buyer_info, resp, db) ==
    \E out \in {CheckoutAmazonCart(env, orders, cart_id, buyer_info, resp, db, now)} :
        /\ orders' = out.table
        /\ now' = IF Len(out.table) = Len(orders) THEN now ELSE now + 1
        /\ last' = [op |-> "checkout_amazon_cart",
                    args |-> [cart_id |-> cart_id, buyer_info |-> buyer_info],
                    resp |-> resp, db |-> db, result |-> out.result,
                    calls |-> out.calls, inserts |-> out.inserts]
        /\ UNCHANGED <<env, limits, lastSet>>

\* the whole invocation, the provider's answer included
CallCheckout(Ids, Buyers, Answers) ==
    \E cart_id \in Ids, buyer_info \in Buyers, resp \in Answers, db \in DbOutcomes :
        FinishCheckout(cart_id, buyer_info, resp, db) /\ UNCHANGED pending

CallListPurchases ==
    \E limit \in 0..MaxListLimit, db \in DbOutcomes :
        \E out \in {ListMyPurchases(env, orders, limit, db)} :
            /\ last' = [op |-> "list_my_purchases", args |-> [limit |-> limit],
                        resp |-> Null, db |-> db, result |-> out.result,
                        calls |-> out.calls, inserts |-> 0]
            /\ UNCHANGED <<env, orders, limits, now, lastSet, pending>>

\* lastSet remembers, per user, the limit of the last call that succeeded;
\* replaced tells whether an earlier call had succeeded for the user.
CallSetSpendingLimit ==
    \E u \in Users, limit_value \in {Dec(10, 0), Dec(75, 0)}, db \in DbOutcomes :
        \E out \in {SetSpendingLimit(env, limits, u, limit_value, db)} :
            /\ limits' = out.table
            /\ lastSet' = IF Has(out.result, "error") THEN lastSet
                          ELSE [lastSet EXCEPT ![u] = limit_value]
            /\ last' = [op |-> "set_spending_limit",
                        args |-> [user_identifier |-> u, limit_value |-> limit_value,
                                  replaced |-> lastSet[u] # Null],
                        resp |-> Null, db |-> db, result |-> out.result,
                        calls |-> out.calls, inserts |-> 0]
            /\ UNCHANGED <<env, orders, now, pending>>

CallGetSpendingStatus ==
    \E u \in Users, db1 \in DbOutcomes, db2 \in DbOutcomes :
        \E out \in {GetSpendingStatus(env, limits, orders, u, db1, db2, now, DayLen)} :
            /\ last' = [op |-> "get_spending_status", args |-> [user_identifier |-> u],
                        resp |-> Null, db |-> db1, result |-> out.result,
                        calls |-> out.calls, inserts |-> 0]
            /\ UNCHANGED <<env, orders, limits, now, lastSet, pending>>

(* Spec: the configured server over any sequence of invocations. *)

\* Two answers for each tool that touches no table, and two buyers: one
\* with an email and one without.
Few(Answers) == {NetError} \cup {a \in Answers : a.net = "ok" /\ ~Has(a.body, "errors")}

SomeBuyers == {Obj([email |-> Str("u1")]), Obj([name |-> Str("n")])}

research_products == CallResearchProducts(SearchAnswers)
request_amazon_product_tracking == CallRequestTracking(Few(TrackingAnswers))
fetch_amazon_product_details == CallFetchProduct(Few(ProductAnswers))
create_amazon_cart == CallCreateCart(CreateCartAnswers)
get_rye_cart_details == CallGetCart(GetCartAnswers)
checkout_amazon_cart ==
    Len(orders) < MaxOrders /\ CallCheckout(CartIds, SomeBuyers, GetCartAnswers)
list_my_purchases == CallListPurchases
set_spending_limit == CallSetSpendingLimit
get_spending_status == CallGetSpendingStatus

Next ==
    \/ research_products
    \/ request_amazon_product_tracking
    \/ fetch_amazon_product_details
    \/ create_amazon_cart
    \/ get_rye_cart_details
    \/ checkout_amazon_cart
    \/ list_my_purchases
    \/ set_spending_limit
    \/ get_spending_status

Spec == InitConfigured /\ [][Next]_vars

(* SpecTools: one invocation of any tool under any environment. *)

checkout_amazon_cart_any_buyer == CallCheckout(CartIds, BuyerInfos, GetCartAnswers)

NextTools ==
    /\ Fresh
    /\ \/ research_products
       \/ request_amazon_product_tracking
       \/ fetch_amazon_product_details
       \/ create_amazon_cart
       \/ get_rye_cart_details
       \/ checkout_amazon_cart_any_buyer
       \/ list_my_purchases
       \/ set_spending_limit
       \/ get_spending_status

SpecTools == Init /\ [][NextTools]_vars

(* SpecCart: one invocation of a Rye tool that returns the provider's      *)
(* payload, on every shape of answer.                                      *)

create_amazon_cart_shapes == Fresh /\ CallCreateCart(AllCreateCartAnswers)
get_rye_cart_details_shapes == Fresh /\ CallGetCart(AllGetCartAnswers)
fetch_amazon_product_details_shapes == Fresh /\ CallFetchProduct(ProductAnswers)

NextCart ==
    \/ create_amazon_cart_shapes
    \/ get_rye_cart_details_shapes
    \/ fetch_amazon_product_details_shapes

SpecCart == InitConfigured /\ [][NextCart]_vars

(* SpecCheckout: one checkout on every shape of fetched cart. *)

checkout_amazon_cart_shapes ==
    Fresh /\ CallCheckout(CartIds, BuyerInfos, AllGetCartAnswers)

NextCheckout == checkout_amazon_cart_shapes

SpecCheckout == InitConfigured /\ [][NextCheckout]_vars

(* SpecAsync: checkout in the two steps its await makes: up to the POST of  *)
(* the cart query, and from the answer on.  Another handler, the listing of *)
(* the orders, runs while a checkout waits.                                 *)

\* Lines 453-461 and 356-405: with a value of the environment missing the
\* invocation ends before any request; else it waits for the answer.
checkout_amazon_cart_begin ==
    /\ pending = NoCheckout
    /\ Len(orders) < MaxOrders
    /\ \E cart_id \in CartIds, buyer_info \in SomeBuyers :
          IF EnvSet(env, SupabaseEnv) /\ EnvSet(env, RyeEnv)
          THEN /\ pending' = [cart_id |-> cart_id, buyer_info |-> buyer_info]
               /\ UNCHANGED <<env, orders, limits, now, last, lastSet>>
          ELSE /\ FinishCheckout(cart_id, buyer_info, NetError, "none")
               /\ UNCHANGED pending

\* Lines 405-449 and 462-527: the answer arrives and the invocation runs to
\* its return.
checkout_amazon_cart_resume ==
    /\ pending # NoCheckout
    /\ \E resp \in GetCartAnswers, db \in DbOutcomes :
          FinishCheckout(pending.cart_id, pending.buyer_info, resp, db)
    /\ pending' = NoCheckout

InitAsync == Init /\ env \in {EnvNames, EnvNames \ RyeEnv}

NextAsync ==
    \/ checkout_amazon_cart_begin
    \/ checkout_amazon_cart_resume
    \/ list_my_purchases

SpecAsync == InitAsync /\ [][NextAsync]_vars

(* SpecStatus: one get_spending_status over tables of amounts that sit on   *)
(* and around the boundaries of the advice.                                 *)

\* The row checkout_amazon_cart inserts at a time for a buyer and a total.
AmountRow(user, cents, time) ==
    StampRow(OrderData(Str("c1"), Obj([email |-> Str(user)]), CentsToDollars(cents),
                       Str("USD"), List(<<>>)),
             time)

\* order totals in cents, over two days of clock ticks
StatusRows ==
    {AmountRow(p[1], p[2], t) :
        p \in ({"u1"} \X {10, 70, 1170, 4500, 8999, 9000, 10000, 15000})
                \cup {<<"u2", 4500>>},
        t \in 0..(2 * DayLen - 1)}

StatusOrderTables ==
    {<<>>} \cup {<<r>> : r \in StatusRows}
      \cup {t \in StatusRows \X StatusRows :
               t[1].v["created_at"].v < t[2].v["created_at"].v}

InitStatus ==
    /\ env = EnvNames
    /\ orders \in StatusOrderTables
    /\ \E limit_value \in {Dec(100, 0), Dec(13, 0), Dec(0, 80), Null} :
          /\ limits = IF limit_value = Null THEN <<>>
                      ELSE <<LimitRow("u1", limit_value)>>
          /\ lastSet = [u \in Users |-> IF u = "u1" THEN limit_value ELSE Null]
    /\ now = 2 * DayLen - 1
    /\ pending = NoCheckout
    /\ last = [op |-> "none", args |-> NoArgs, resp |-> Null, db |-> "none",
               result |-> Null, calls |-> 0, inserts |-> 0]

get_spending_status_once == Fresh /\ CallGetSpendingStatus

NextStatus == get_spending_status_once

SpecStatus == InitStatus /\ [][NextStatus]_vars

-----------------------------------------------------------------------------
(* Results, as the caller reads them.                                       *)

IsFailure(r) == IsObj(r) /\ Has(r, "error")
IsSuccess(r) == IsObj(r) /\ ~Has(r, "error")

\* The environment values each operation needs.
Required(op) ==
    CASE op = "research_products" -> FirecrawlEnv
      [] op \in {"request_amazon_product_tracking", "fetch_amazon_product_details",
                 "create_amazon_cart", "get_rye_cart_details"} -> RyeEnv
      [] op = "checkout_amazon_cart" -> SupabaseEnv \cup RyeEnv
      [] OTHER -> SupabaseEnv

ConfigMessages ==
    {Str("FIRECRAWL_API_KEY not set."),
     Str("RYE_AUTH_HEADER or RYE_SHOPPER_IP not set in environment variables."),
     Str("RYE_AUTH_HEADER or RYE_SHOPPER_IP not set"),
     Str("Supabase URL or service role key not configured."),
     Str("Supabase URL or key not set in environment.")}

\* A Failure that says only that configuration is missing.
IsConfigMissing(r) == IsFailure(r) /\ DOMAIN r.v = {"error"} /\ r.v["error"] \in ConfigMessages

\* A Failure that reports missing configuration: the configuration Failure
\* itself, or the Failure of checkout that carries the configuration Failure
\* of its cart fetch as its details.
ReportsConfigMissing(r) ==
    \/ IsConfigMissing(r)
    \/ /\ IsFailure(r)
       /\ Has(r, "details")
       /\ IsConfigMissing(r.v["details"])

\* C1: an operation invoked with a required environment value unset returns
\* a Failure reporting the missing configuration and makes no outbound
\* network or datastore call; for checkout this covers the Supabase values
\* and the Rye values of its internal cart fetch.
C1_ConfigMissingNoCalls ==
    (last.op # "none" /\ ~EnvSet(env, Required(last.op)))
        => /\ ReportsConfigMissing(last.result)
           /\ last.calls = 0
           /\ last.inserts = 0
           /\ orders = <<>> /\ limits = <<>>

\* checkout with the Supabase values set and a Rye value unset
C1_Witness ==
    /\ last.op = "checkout_amazon_cart"
    /\ EnvSet(env, SupabaseEnv) /\ ~EnvSet(env, RyeEnv)
    /\ IsFailure(last.result) /\ last.calls = 0

\* C2: no operation raises past the tool boundary: every invocation ends
\* with a result dict, whatever the provider's answer.
C2_NeverRaises == last.op # "none" => ~IsRaise(last.result)

\* C3: a result that is not a Failure (no top-level error key) has no
\* top-level errors field either.
C3_SuccessHasNoErrorField ==
    (last.op # "none" /\ IsSuccess(last.result)) => ~Has(last.result, "errors")

-----------------------------------------------------------------------------
(* The createCart answer of the last invocation, read field by field.       *)

AnswerBody == IF last.resp.net = "ok" THEN last.resp.body ELSE Null
AnswerData == IF IsObj(AnswerBody) THEN GetD(AnswerBody, "data", EmptyObj) ELSE Null
CreateCartPayload == IF IsObj(AnswerData) THEN Get(AnswerData, "createCart") ELSE Null
CreatedCart == IF IsObj(CreateCartPayload) THEN Get(CreateCartPayload, "cart") ELSE Null
CreatedStores ==
    IF IsObj(CreatedCart) /\ IsList(Get(CreatedCart, "stores"))
    THEN Get(CreatedCart, "stores").v ELSE <<>>

HasLines(store) ==
    /\ IsObj(store)
    /\ IsList(Get(store, "cartLines"))
    /\ Len(Get(store, "cartLines").v) > 0

HasErrors(store) == IsObj(store) /\ Truthy(Get(store, "errors"))

\* (a) no top-level errors, (b) payload present, (c) no operation-level errors
NoTopLevelErrors == IsObj(AnswerBody) /\ ~Truthy(Get(AnswerBody, "errors"))
PayloadPresent == IsObj(CreateCartPayload) /\ Truthy(CreateCartPayload)
NoOperationErrors == PayloadPresent /\ ~Truthy(Get(CreateCartPayload, "errors"))
\* (e) no store carries errors
NoStoreErrors == \A i \in 1..Len(CreatedStores) : ~HasErrors(CreatedStores[i])

CreateCartReturned == last.op = "create_amazon_cart" /\ EnvSet(env, RyeEnv)

\* C4 as stated: the payload is returned only when all five checks pass,
\* where the structure check asks for a non-empty stores list of which every
\* store has cart lines; a cart with no stores, or with a store that has no
\* cart lines, gives a Failure.
C4_Original ==
    CreateCartReturned =>
        /\ IsSuccess(last.result) =>
              /\ last.result = CreateCartPayload
              /\ NoTopLevelErrors /\ PayloadPresent /\ NoOperationErrors
              /\ Len(CreatedStores) > 0
              /\ \A i \in 1..Len(CreatedStores) : HasLines(CreatedStores[i])
              /\ NoStoreErrors
        /\ (IsObj(CreatedCart)
               /\ (Len(CreatedStores) = 0
                      \/ \E i \in 1..Len(CreatedStores) : ~HasLines(CreatedStores[i])))
              => IsFailure(last.result)

\* C4 (amended): the payload is returned only when all five checks pass,
\* where the structure check asks for a cart id, a non-empty stores list and
\* cart lines in its first store; a cart with no stores, or whose first
\* store has no cart lines, gives a Failure even with no error field
\* anywhere in the answer.
C4_PayloadOnlyWhenChecksPass ==
    CreateCartReturned =>
        /\ IsSuccess(last.result) =>
              /\ last.result = CreateCartPayload
              /\ NoTopLevelErrors /\ PayloadPresent /\ NoOperationErrors
              /\ IsObj(CreatedCart) /\ Truthy(Get(CreatedCart, "id"))
              /\ Len(CreatedStores) > 0 /\ HasLines(CreatedStores[1])
              /\ NoStoreErrors
        /\ (IsObj(CreatedCart)
               /\ (Len(CreatedStores) = 0 \/ ~HasLines(CreatedStores[1])))
              => IsFailure(last.result)

\* a cart whose first store has no cart lines, no error field anywhere
C4_Witness ==
    /\ CreateCartReturned
    /\ NoTopLevelErrors /\ ~Has(AnswerBody, "errors")
    /\ PayloadPresent /\ ~Has(CreateCartPayload, "errors")
    /\ IsObj(CreatedCart) /\ Truthy(Get(CreatedCart, "id"))
    /\ Len(CreatedStores) = 2
    /\ IsObj(CreatedStores[1]) /\ ~Has(CreatedStores[1], "errors")
    /\ ~HasLines(CreatedStores[1]) /\ HasLines(CreatedStores[2])
    /\ NoStoreErrors
    /\ IsFailure(last.result)

\* C5: an answer that passes the top-level, payload and operation-level
\* checks and whose first store has a non-empty errors array gives a Failure
\* whose details are exactly those errors, with or without cart lines; and a
\* non-empty errors array on any store gives a Failure.
C5_StoreErrorsReported ==
    (CreateCartReturned /\ NoTopLevelErrors /\ NoOperationErrors) =>
        /\ (Len(CreatedStores) > 0 /\ HasErrors(CreatedStores[1]))
              => /\ IsFailure(last.result)
                 /\ Has(last.result, "details")
                 /\ last.result.v["details"] = Get(CreatedStores[1], "errors")
        /\ (\E i \in 1..Len(CreatedStores) : HasErrors(CreatedStores[i]))
              => IsFailure(last.result)

-----------------------------------------------------------------------------
(* The orders table.                                                        *)

CartFetchFailed(r) ==
    IsFailure(r) /\ r.v["error"] = Str("Failed to fetch cart details before checkout")

\* C6: a checkout call inserts at most one Order row: exactly one, with
\* status CREATED and the call's cart id, when it returns Success; none when
\* it fails for missing configuration or a failed cart fetch; and no step of
\* any operation changes or removes a row that is there.
C6_OrdersAppendOnly ==
    [][LET n == Len(orders) IN
       /\ Len(orders') \in {n, n + 1}
       /\ SubSeq(orders', 1, n) = orders
       /\ last'.op # "checkout_amazon_cart" => orders' = orders
       /\ (last'.op = "checkout_amazon_cart" /\ IsSuccess(last'.result))
             => /\ Len(orders') = n + 1
                /\ orders'[n + 1].v["status"] = Str("CREATED")
                /\ orders'[n + 1].v["rye_cart_id"] = last'.args.cart_id
       /\ (last'.op = "checkout_amazon_cart"
              /\ (IsConfigMissing(last'.result) \/ CartFetchFailed(last'.result)))
             => orders' = orders]_vars

\* a second successful checkout, for the other cart
C6_Witness ==
    /\ last.op = "checkout_amazon_cart" /\ IsSuccess(last.result)
    /\ Len(orders) = 2
    /\ orders[1].v["rye_cart_id"] # orders[2].v["rye_cart_id"]
    /\ orders[2].v["rye_cart_id"] = last.args.cart_id

\* C7: every Order row has a string user_identifier.
C7_OrdersHaveUser ==
    \A i \in 1..Len(orders) : orders[i].v["user_identifier"].t = "str"

\* C8: when the insert of checkout fails, by an error object or by an
\* exception, the Failure carries the order row that was attempted; when the
\* cart fetch fails, the Failure carries the Failure of the fetch as details.
C8_FailuresCarryDiagnosis ==
    last.op = "checkout_amazon_cart" =>
        /\ (last.inserts = 1 /\ last.db \in {"error", "raise"})
              => /\ IsFailure(last.result)
                 /\ Has(last.result, "order_data")
                 /\ last.result.v["order_data"].v["rye_cart_id"] = last.args.cart_id
        /\ (EnvSet(env, SupabaseEnv) /\ IsFailure(GetRyeCartDetails(env, last.resp).result))
              => /\ IsFailure(last.result)
                 /\ Has(last.result, "details")
                 /\ last.result.v["details"] = GetRyeCartDetails(env, last.resp).result

-----------------------------------------------------------------------------
(* The spending_limits table.                                               *)

RowsOfUser(u) == {i \in 1..Len(limits) : limits[i].v["user_identifier"] = Str(u)}

\* C9: the table holds at most one row per user, with the limit of the last
\* set_spending_limit that succeeded for the user (no row before the first),
\* and get_spending_status reports that limit.
C9_OneRowLastLimit ==
    /\ \A u \in Users :
          /\ Cardinality(RowsOfUser(u)) <= 1
          /\ lastSet[u] = Null => RowsOfUser(u) = {}
          /\ lastSet[u] # Null =>
                \E i \in RowsOfUser(u) : limits[i].v["limit_value"] = lastSet[u]
    /\ (last.op = "get_spending_status" /\ IsSuccess(last.result))
          => last.result.v["spending_limit"] =
                IF lastSet[last.args.user_identifier] = Null THEN VeryHigh
                ELSE lastSet[last.args.user_identifier]
    /\ (last.op = "set_spending_limit" /\ IsSuccess(last.result))
          => lastSet[last.args.user_identifier] = last.args.limit_value

\* the limit of u1 set again, to 75, with a row of u2 in the table
C9_Witness ==
    /\ last.op = "set_spending_limit" /\ IsSuccess(last.result)
    /\ last.args.replaced
    /\ last.args.user_identifier = "u1" /\ last.args.limit_value = Dec(75, 0)
    /\ Len(limits) = 2
    /\ limits[1] = LimitRow("u1", Dec(75, 0))

-----------------------------------------------------------------------------
(* The total of an order.                                                   *)

FetchedAnswerCart ==
    LET payload == IF IsObj(AnswerData) THEN Get(AnswerData, "getCart") ELSE Null IN
    IF IsObj(payload) THEN Get(payload, "cart") ELSE Null

\* The raw minor-unit value of a cost component, 0 when the cost, the
\* component or its value is missing or null.
RawCents(cart, name) ==
    LET cost == IF IsObj(cart) /\ IsObj(Get(cart, "cost")) THEN Get(cart, "cost")
                ELSE EmptyObj
        part == IF IsObj(Get(cost, name)) THEN Get(cost, name) ELSE EmptyObj
        val == Get(part, "value") IN
    CASE val.t = "num" -> val.v
      [] val.t = "str" /\ val.v \in NumericStrings -> StrValue(val.v)
      [] OTHER -> 0

ExpectedCents(cart) ==
    RawCents(cart, "subtotal") + RawCents(cart, "shipping") + RawCents(cart, "tax")

\* C10: the total_amount_value of the row a checkout inserts is
\* (subtotal + shipping + tax) / 100 over the raw values of the fetched
\* cart, a missing or null component counting 0; 1000 + 500 + 0 gives 15.00.
C10_TotalIsSumOverHundred ==
    (last.op = "checkout_amazon_cart" /\ Len(orders) > 0) =>
        LET total == orders[Len(orders)].v["total_amount_value"]
            cents == ExpectedCents(FetchedAnswerCart) IN
        /\ total.t = "dec"
        /\ 100 * total.units + total.frac = cents
        /\ total.frac \in 0..99
        /\ Get(FetchedAnswerCart, "cost") = StandardCost => total = Dec(15, 0)
        /\ IsSuccess(last.result)
              => last.result.v["order_data"].v["total_amount_value"] = total

\* a row inserted for a cart with no subtotal, a null shipping and tax 250
C10_Witness ==
    /\ last.op = "checkout_amazon_cart" /\ Len(orders) = 1
    /\ IsObj(FetchedAnswerCart)
    /\ Get(FetchedAnswerCart, "cost") = CostOf(Absent, Null, Money(Num(250), Absent))
    /\ orders[1].v["total_amount_value"] = Dec(2, 50)

-----------------------------------------------------------------------------
(* The advice of get_spending_status.                                       *)

\* The cents the user spent in the orders created at or after a time.
RECURSIVE SpentSince(_, _, _)
SpentSince(u, since, i) ==
    IF i > Len(orders) THEN 0
    ELSE (IF /\ orders[i].v["user_identifier"] = Str(u)
             /\ orders[i].v["created_at"].v >= since
          THEN ToCents(orders[i].v["total_amount_value"]) ELSE 0)
           + SpentSince(u, since, i + 1)

\* C11: with spent the sum of the totals of the user's orders created at or
\* after the midnight of today, the remaining limit is limit - spent and the
\* advice is 'limit reached' when spent >= limit, else 'approaching' when
\* spent >= 0.9 * limit, else 'clear', the boundaries included; for the
\* limit 100, 89.99 is clear, 90 approaching, 100 and 150 reached.
C11_TiersIncludeBoundaries ==
    (/\ last.op = "get_spending_status"
     /\ IsSuccess(last.result)
     /\ last.result.v["spending_limit"] # VeryHigh) =>
        LET limit == ToCents(last.result.v["spending_limit"])
            spent == SpentSince(last.args.user_identifier, TodayStart(now, DayLen), 1) IN
        /\ ToCents(last.result.v["total_spent_today"]) = spent
        /\ ToCents(last.result.v["remaining_limit"]) = limit - spent
        /\ last.result.v["advice"] =
              IF spent >= limit THEN ReachedAdvice
              ELSE IF 10 * spent >= 9 * limit THEN NearAdvice
              ELSE ClearAdvice

-----------------------------------------------------------------------------
(* The listing of purchases.                                                *)

Min(a, b) == IF a < b THEN a ELSE b

\* C12: list_my_purchases(limit) over a table of n rows returns exactly
\* min(limit, n) rows: the most recent ones, the latest first, each as it
\* is in the table, the rows checkout has just inserted among them.
C12_LatestRowsFirst ==
    (last.op = "list_my_purchases" /\ IsSuccess(last.result)) =>
        LET listed == last.result.v["orders"].v
            n == Len(orders) IN
        /\ Len(listed) = Min(last.args.limit, n)
        /\ \A i \in 1..Len(listed) : listed[i] = orders[n + 1 - i]
        /\ \A i \in 1..(Len(listed) - 1) :
              listed[i].v["ordered_at"].v >= listed[i + 1].v["ordered_at"].v
        /\ \A i \in 1..Len(listed) : \A j \in 1..n :
              (\A k \in 1..Len(listed) : listed[k] # orders[j])
                 => orders[j].v["ordered_at"].v <= listed[i].v["ordered_at"].v

\* one row asked of a table of two, and the one returned is the later
C12_Witness ==
    /\ last.op = "list_my_purchases" /\ IsSuccess(last.result)
    /\ last.args.limit = 1
    /\ Len(orders) = 2
    /\ last.result.v["orders"].v = <<orders[2]>>
    /\ orders[2].v["ordered_at"].v > orders[1].v["ordered_at"].v

-----------------------------------------------------------------------------
(* The order of the steps of one checkout.                                  *)

\* A checkout that waited for the provider's answer returns in this step.
CheckoutResumes == pending # NoCheckout /\ pending' = NoCheckout

\* C13: in one checkout the read of the cart has completed before the
\* insert is attempted, and the insert is attempted only if the read gave a
\* cart: when the cart fetch gives a Failure, the checkout returns a Failure
\* and issues no insert into orders.
C13_InsertOnlyAfterCartRead ==
    [][/\ (orders' # orders \/ (last' # last /\ last'.inserts > 0)) => CheckoutResumes
       /\ CheckoutResumes =>
            LET fetched == GetRyeCartDetails(env, last'.resp).result IN
            /\ last'.op = "checkout_amazon_cart"
            /\ last'.args.cart_id = pending.cart_id
            /\ last'.inserts \in {0, 1}
            /\ last'.inserts = 1 => IsSuccess(fetched) /\ last'.calls = 2
            /\ IsFailure(fetched) =>
                  /\ IsFailure(last'.result)
                  /\ last'.inserts = 0
                  /\ orders' = orders
       /\ (pending = NoCheckout /\ pending' # NoCheckout) =>
            UNCHANGED <<orders, last>>]_vars

\* a checkout that waited for the answer has returned the Failure of a
\* failed fetch without an insert, after an earlier one had inserted its row
C13_Witness ==
    /\ last.op = "checkout_amazon_cart"
    /\ pending = NoCheckout
    /\ IsFailure(GetRyeCartDetails(env, last.resp).result)
    /\ EnvSet(env, RyeEnv)
    /\ CartFetchFailed(last.result)
    /\ last.inserts = 0
    /\ Len(orders) = 1

-----------------------------------------------------------------------------
(* Checkout and the spending limit.                                         *)

\* A step in which a checkout returns.
CheckoutReturns ==
    orders' # orders \/ (last' # last /\ last'.op = "checkout_amazon_cart")

\* C14: checkout does not touch the spending_limits table and is not gated
\* by the limit: whatever the limit of the buyer and whatever was spent
\* today, a checkout whose cart fetch and insert succeed inserts its row;
\* and get_spending_status reports the whole of what was spent today, with
\* remaining = limit - spent, below 0 when more than the limit was spent.
C14_CheckoutNotGated ==
    [][/\ CheckoutReturns =>
            /\ limits' = limits
            /\ (/\ IsSuccess(GetRyeCartDetails(env, last'.resp).result)
                /\ last'.db = "ok"
                /\ ~IsRaise(last'.result))
                  => /\ IsSuccess(last'.result)
                     /\ Len(orders') = Len(orders) + 1
                     /\ orders'[Len(orders')].v["rye_cart_id"] = last'.args.cart_id
                     /\ orders'[Len(orders')].v["user_identifier"]
                           = Get(last'.args.buyer_info, "email")
       /\ (/\ last'.op = "get_spending_status"
           /\ IsSuccess(last'.result)
           /\ last'.result.v["spending_limit"] # VeryHigh) =>
            LET limit == ToCents(last'.result.v["spending_limit"])
                spent == SpentSince(last'.args.user_identifier,
                                    TodayStart(now, DayLen), 1) IN
            /\ orders' = orders /\ now' = now
            /\ ToCents(last'.result.v["total_spent_today"]) = spent
            /\ ToCents(last'.result.v["remaining_limit"]) = limit - spent
            /\ (spent > limit) = (last'.result.v["remaining_limit"].units < 0)]_vars

\* with a limit set for u1, a checkout of u1 has inserted its row although
\* the order of u1 made earlier today was already at or above the limit
C14_Witness ==
    /\ last.op = "checkout_amazon_cart" /\ IsSuccess(last.result)
    /\ Len(orders) = 2
    /\ orders[2].v["user_identifier"] = Str("u1")
    /\ orders[1].v["user_identifier"] = Str("u1")
    /\ orders[1].v["created_at"].v >= TodayStart(orders[2].v["created_at"].v, DayLen)
    /\ \E i \in RowsOfUser("u1") :
          ToCents(orders[1].v["total_amount_value"]) >= ToCents(limits[i].v["limit_value"])

====
